---------------------------- MODULE Spec2Model ----------------------------
(***************************************************************************)
(* Model of the film recommender: the engine functions of                  *)
(* output/sistema_recomendacao.py and app.py (loader, rating matrix,       *)
(* collaborative scorer, content corpus, content scorer, formatter,        *)
(* popular list, search) and the command-line session of                   *)
(* output/recomendador_interativo.py.                                      *)
(*                                                                         *)
(* Tables are modelled by what the functions read of them:                 *)
(*   movies   sequence of rows [movieId, title, genres], in file order     *)
(*   ratings  set of rows [userId, movieId, rating], one per (user, film); *)
(*            the row order of the file reaches a result only through the  *)
(*            order of tied keys in a sort, which is a free choice here    *)
(*   tags     number of tag rows of each movieId                           *)
(*   dados    number of attribute rows of each Name                        *)
(* A similarity s >= 0 is kept exactly, as the reduced fraction            *)
(* <<p, q>> = s^2.                                                         *)
(*                                                                         *)
(* Spec runs the engine functions as single calls, SpecCLI the menu loop   *)
(* of the command-line program, SpecAll both; SpecConsultas follows the    *)
(* recommendation queries of one or two callers step by step, with the     *)
(* st.cache_data store of app.py and a count of the matrices computed.     *)
(***************************************************************************)
EXTENDS Integers, Sequences, FiniteSets, TLC

\* ------------------------------------------------------------- bounds
NItems == 2          \* rows of movies.csv
MaxRatings == 3      \* rows of ratings.csv
MaxN == 3            \* largest count passed to the formatter

MovieIds == 1..NItems
UserIds == {1, 2}
RatingValues == {1, 2}
Titles == {"Ab", "b("}               \* titles of movies.csv
QueryTitles == Titles \cup {"Zz"}    \* "Zz" is in no table
GenreTexts == {"Drama", "-"}         \* "-" has no token of two word characters
DupCounts == {0, 2}                  \* rows of tags.csv per film / dados.csv per Name
FrontEnds == {"app", "cli"}

\* --------------------------------------------------------- arithmetic
RECURSIVE Gcd(_, _)
Gcd(a, b) == IF b = 0 THEN a ELSE Gcd(b, a % b)

Lcm(a, b) == (a * b) \div Gcd(a, b)

RECURSIVE LcmUpTo(_)
LcmUpTo(n) == IF n <= 1 THEN 1 ELSE Lcm(n, LcmUpTo(n - 1))

\* A cell of the rating matrix is a mean of at most NItems ratings (the films
\* sharing one title); cells are kept in units of 1/Escala so they stay integers.
Escala == LcmUpTo(NItems)

RECURSIVE SumOver(_, _)
SumOver(S, f) ==
  IF S = {} THEN 0
  ELSE LET x == CHOOSE y \in S : TRUE IN f[x] + SumOver(S \ {x}, f)

\* ------------------------------------------------------ result values
None == [tipo |-> "None"]
Raise(e) == [tipo |-> "raise", exc |-> e]
IsRaise(r) == r.tipo = "raise"
IsNone(r) == r.tipo = "None"

\* -------------------------------------------------------------- state
VARIABLES
  frontend,             \* which module's functions run: app.py or output/
  disco,                \* the four CSV files of the data directory
  movies,               \* loaded Items table
  movieIdStr,           \* movies['movieId'] holds str (TRUE) or int64 (FALSE)
  ratings,              \* loaded Ratings table
  tags,                 \* loaded Tags table or None
  dados,                \* loaded attribute table or None
  conteudo_disponivel,  \* the loader's content flag
  movies_table,         \* rating matrix, None before it is built
  df2,                  \* content corpus, None before it is built
  chamada,              \* the last engine call: function, arguments, result
  sessao,               \* the command-line session: "start", "loop" (top of the
                        \* while loop), "menu" (a choice is awaited), "exit",
                        \* "startup_crash", "query_crash"; "none": no session
  cache,                \* app.py: the st.cache_data store of each scorer
  builds,               \* similarity matrices computed so far, per scorer
  consulta              \* the recommendation query each caller is running

vars == <<frontend, disco, movies, movieIdStr, ratings, tags, dados,
          conteudo_disponivel, movies_table, df2, chamada, sessao,
          cache, builds, consulta>>

simVars == <<cache, builds, consulta>>

dataVars == <<frontend, disco, movies, movieIdStr, ratings, tags, dados,
              conteudo_disponivel, sessao, simVars>>

\* ---------------------------------------------------------- the files
MovieTables ==
  { m \in [MovieIds -> [movieId : MovieIds, title : Titles, genres : GenreTexts]] :
      \A i \in MovieIds : m[i].movieId = i }

\* Ratings of the films of movies.csv, and one rating of a film id that
\* movies.csv does not hold.
RatingRows ==
  [userId : UserIds, movieId : MovieIds, rating : RatingValues]
    \cup {[userId |-> 1, movieId |-> NItems + 1, rating |-> 1]}

\* ratings.csv holds at least one row and at most one per (user, film).
RatingTables ==
  { R \in SUBSET RatingRows :
      /\ R # {}
      /\ Cardinality(R) <= MaxRatings
      /\ \A a, b \in R : (a.userId = b.userId /\ a.movieId = b.movieId) => a = b }

TagFiles ==
  { [ok |-> TRUE, linhas |-> f] :
      f \in { g \in [MovieIds -> DupCounts] : \A i \in MovieIds : i # 1 => g[i] = 0 } }
    \cup { [ok |-> FALSE, linhas |-> [i \in MovieIds |-> 0]] }

DadosFiles ==
  { [ok |-> TRUE, linhas |-> f] :
      f \in { g \in [Titles -> DupCounts] : \A t \in Titles : t # "Ab" => g[t] = 0 } }
    \cup { [ok |-> FALSE, linhas |-> [t \in Titles |-> 0]] }

AllDrama(m) == \A i \in MovieIds : m[i].genres = "Drama"

\* Data directories that vary the rating side: no optional table on disk.
DiscosColab ==
  { [movies |-> m, ratings |-> R,
     tags |-> [ok |-> FALSE, linhas |-> [i \in MovieIds |-> 0]],
     dados |-> [ok |-> FALSE, linhas |-> [t \in Titles |-> 0]]] :
       m \in {x \in MovieTables : AllDrama(x)}, R \in RatingTables }

\* Data directories that vary the content side: one rating row.
DiscosConteudo ==
  { [movies |-> m, ratings |-> R, tags |-> tg, dados |-> dd] :
       m \in MovieTables,
       R \in {{[userId |-> 1, movieId |-> 1, rating |-> 2]}},
       tg \in TagFiles, dd \in DadosFiles }

EmptyTable == [tipo |-> "tabela", linhas |-> <<>>]

\* The callers of the recommendation queries: the script runs of two browser
\* sessions of app.py; the command-line program is one process with one thread.
Callers == {"s1", "s2"}

\* No query was made yet: nothing is cached, no matrix was computed.
NoQueryYet ==
  /\ cache = [colab |-> <<>>, conteudo |-> <<>>]
  /\ builds = [colab |-> 0, conteudo |-> 0]
  /\ consulta = [s \in Callers |-> [fase |-> "idle"]]

Init ==
  /\ frontend \in FrontEnds
  /\ disco \in DiscosColab \cup DiscosConteudo
  /\ movies = None
  /\ movieIdStr = FALSE
  /\ ratings = None
  /\ tags = None
  /\ dados = None
  /\ conteudo_disponivel = FALSE
  /\ movies_table = None
  /\ df2 = None
  /\ chamada = [fn |-> "start"]
  /\ sessao = "none"
  /\ NoQueryYet

\* ------------------------------------------------------------- loader
\* carregar_dados: movies and ratings are read unguarded; tags and dados are read
\* in one try block, so a failure of either leaves both None.
carregar_dados(d) ==
  IF d.tags.ok /\ d.dados.ok
  THEN [movies |-> [tipo |-> "tabela", linhas |-> d.movies],
        ratings |-> [tipo |-> "tabela", linhas |-> d.ratings],
        tags |-> [tipo |-> "tabela", linhas |-> d.tags.linhas],
        dados |-> [tipo |-> "tabela", linhas |-> d.dados.linhas],
        flag |-> TRUE]
  ELSE [movies |-> [tipo |-> "tabela", linhas |-> d.movies],
        ratings |-> [tipo |-> "tabela", linhas |-> d.ratings],
        tags |-> None, dados |-> None, flag |-> FALSE]

Loaded == movies # None

\* No call is in progress: the caller is done with the last result.
Idle == chamada.fn = "idle"

CarregarDados ==
  /\ sessao = "none"
  /\ ~Loaded
  /\ LET r == carregar_dados(disco) IN
       /\ movies' = r.movies
       /\ ratings' = r.ratings
       /\ tags' = r.tags
       /\ dados' = r.dados
       /\ conteudo_disponivel' = r.flag
  /\ chamada' = [fn |-> "carregar_dados"]
  /\ UNCHANGED <<frontend, disco, movieIdStr, movies_table, df2, sessao, simVars>>

\* ------------------------------------------------------ rating matrix
\* movies.merge(ratings, on='movieId'): inner join; a rating of a film id that is
\* not in movies is dropped.
Joined(m, R) ==
  { [title |-> m[i].title, userId |-> r.userId, rating |-> r.rating, movieId |-> i] :
      <<i, r>> \in { p \in MovieIds \X R : p[2].movieId = p[1] } }

CellRows(J, t, u) == { j \in J : j.title = t /\ j.userId = u }

\* pivot_table(index='title', columns='userId', values='rating'): one row per
\* title and one column per userId of the join, each cell the mean (the default
\* aggfunc) of the ratings of that title by that user; fillna(0) for no rating.
\* Mutant: aggfunc='sum' instead of the mean.
PivotSum(J, t, u) ==
  LET rows == CellRows(J, t, u) IN
    Escala * SumOver(rows, [j \in rows |-> j.rating])

PivotMean(J, t, u) ==
  LET rows == CellRows(J, t, u) IN
    IF rows = {} THEN 0
    ELSE (Escala * SumOver(rows, [j \in rows |-> j.rating])) \div Cardinality(rows)

\* merge raises ValueError on an object (str) key against the int64 key of
\* ratings.
preparar_dados_colaborativos(m, idStr, R) ==
  IF idStr THEN Raise("ValueError")
  ELSE LET J == Joined(m, R)
           idx == { j.title : j \in J }
           cols == { j.userId : j \in J }
       IN [tipo |-> "tabela", index |-> idx, columns |-> cols,
           cel |-> [p \in idx \X cols |-> PivotMean(J, p[1], p[2])]]

PrepararDadosColaborativos ==
  /\ sessao = "none"
  /\ Idle
  /\ Loaded
  /\ LET r == preparar_dados_colaborativos(movies.linhas, movieIdStr, ratings.linhas) IN
       /\ movies_table' = IF IsRaise(r) THEN movies_table ELSE r
       /\ chamada' = [fn |-> "preparar_dados_colaborativos", ret |-> r]
  /\ UNCHANGED <<dataVars, df2>>

\* ------------------------------------------------- cosine similarity
Dot(x, y, D) == SumOver(D, [k \in D |-> x[k] * y[k]])

RECURSIVE GcdOver(_, _)
GcdOver(x, D) ==
  IF D = {} THEN 0
  ELSE LET k == CHOOSE j \in D : TRUE IN Gcd(x[k], GcdOver(x, D \ {k}))

\* x without the common factor of its entries: the direction of x.
Direction(x, D) ==
  LET g == GcdOver(x, D) IN IF g = 0 THEN x ELSE [k \in D |-> x[k] \div g]

Frac(p, q) == LET g == Gcd(p, q) IN <<p \div g, q \div g>>

\* sklearn cosine_similarity: each row is divided by its norm (a zero row is
\* left as it is) and the rows are multiplied; the value is s with s^2 = p/q.
CosSq(x, y, D) ==
  LET a == Direction(x, D)
      b == Direction(y, D)
      na == Dot(a, a, D)
      nb == Dot(b, b, D)
      d == Dot(a, b, D)
  IN IF na = 0 \/ nb = 0 THEN <<0, 1>> ELSE Frac(d * d, na * nb)

One == <<1, 1>>
Zero == <<0, 1>>
GE(a, b) == a[1] * b[2] >= b[1] * a[2]

\* sort_values(ascending=False) with the default kind 'quicksort', which is not
\* stable: the rows S can come out in every order that is non-increasing in
\* key. The result is the sequence of the rows' entries ent[x]; rows with equal
\* entries are interchangeable, so one of them stands for all at each step.
RECURSIVE SortedDesc(_, _, _)
SortedDesc(ent, key, S) ==
  IF S = {} THEN {<<>>}
  ELSE LET top == { y \in S : \A z \in S : GE(key[y], key[z]) }
           reps == { y \in top : y = CHOOSE z \in top : ent[z] = ent[y] }
       IN UNION { { <<ent[x]>> \o p : p \in SortedDesc(ent, key, S \ {x}) } :
                    x \in reps }

\* ----------------------------------------------- collaborative scorer
MatrixRow(mt, t) == [u \in mt.columns |-> mt.cel[<<t, u>>]]

\* Column filme of rec_df: the similarity of every row title to filme.
ColabColumn(mt, filme) ==
  [t \in mt.index |-> CosSq(MatrixRow(mt, t), MatrixRow(mt, filme), mt.columns)]

\* The outcomes of filtragem_colaborativa: cosine_similarity raises ValueError
\* on a matrix with no row (check_array needs one sample), before the title is
\* looked up.
filtragem_colaborativa(mt, filme) ==
  IF mt.index = {} THEN {Raise("ValueError")}
  ELSE IF filme \in mt.index
  THEN LET col == ColabColumn(mt, filme)
           ent == [t \in mt.index |-> [title |-> t, sim |-> col[t]]]
       IN { [tipo |-> "tabela", linhas |-> l] : l \in SortedDesc(ent, col, mt.index) }
  ELSE {None}

FiltragemColaborativa ==
  /\ sessao = "none"
  /\ Idle
  /\ movies_table # None
  /\ \E filme \in QueryTitles :
       \E r \in filtragem_colaborativa(movies_table, filme) :
         chamada' = [fn |-> "filtragem_colaborativa", filme |-> filme, ret |-> r]
  /\ UNCHANGED <<dataVars, movies_table, df2>>

\* -------------------------------------------------- ranking formatter
Min(a, b) == IF a <= b THEN a ELSE b

\* Mutant: a slice that is one row too long.
HeadNPlusOne(linhas, n) == SubSeq(linhas, 1, Min(n + 1, Len(linhas)))

\* DataFrame.head(n) for n >= 0.
HeadN(linhas, n) == SubSeq(linhas, 1, Min(n, Len(linhas)))

Msg == [tipo |-> "msg"]   \* "Não foi possível gerar recomendações." printed

\* Mutant: the test for an empty table left out.
mostrar_sem_teste_vazio(fe, rec, n) ==
  IF rec # None
  THEN [tipo |-> "tabela", linhas |-> HeadN(rec.linhas, n)]
  ELSE IF fe = "app" THEN None ELSE Msg

\* app.py returns head(n) or None; output/sistema_recomendacao.py prints head(n)
\* or the message.
mostrar_recomendacoes(fe, rec, n) ==
  IF rec # None /\ Len(rec.linhas) # 0
  THEN [tipo |-> "tabela", linhas |-> HeadN(rec.linhas, n)]
  ELSE IF fe = "app" THEN None ELSE Msg

IsScorerCall(c) ==
  c.fn \in {"filtragem_colaborativa", "recomendacao_baseada_em_conteudo"}

\* The formatter is given the result of the scorer call just made (a ranking
\* or None), or an empty table.
FormatterInputs ==
  IF IsScorerCall(chamada) /\ ~IsRaise(chamada.ret) THEN {chamada.ret}
  ELSE IF Idle THEN {EmptyTable}
  ELSE {}

MostrarRecomendacoes ==
  /\ sessao = "none"
  /\ Loaded
  /\ \E rec \in FormatterInputs, n \in 0..MaxN :
       chamada' = [fn |-> "mostrar_recomendacoes", rec |-> rec, n |-> n,
                   ret |-> mostrar_recomendacoes(frontend, rec, n)]
  /\ UNCHANGED <<dataVars, movies_table, df2>>

\* ------------------------------------------------------ popular list
\* ratings['movieId'].value_counts(): the number of rating rows of each film id.
ValueCounts(R) ==
  [i \in { r.movieId : r \in R } |-> Cardinality({ r \in R : r.movieId = i })]

\* The outcomes of listar_filmes_populares: the counts are joined to a copy of
\* movies (both keys as str) and sorted by count, descending, by the unstable
\* default sort. app.py returns head(n); the command-line module prints head(n)
\* and returns the whole table.
listar_filmes_populares(fe, m, R, n) ==
  LET vc == ValueCounts(R)
      ids == { i \in MovieIds : i \in DOMAIN vc }
      key == [i \in ids |-> <<vc[i], 1>>]
      ent == [i \in ids |-> [movieId |-> i, num_avaliacoes |-> vc[i],
                              title |-> m[i].title]]
  IN { [tipo |-> "tabela", linhas |-> IF fe = "app" THEN HeadN(todas, n) ELSE todas] :
         todas \in SortedDesc(ent, key, ids) }

ListarFilmesPopulares ==
  /\ sessao = "none"
  /\ Idle
  /\ Loaded
  /\ \E n \in 0..MaxN :
       \E r \in listar_filmes_populares(frontend, movies.linhas, ratings.linhas, n) :
         chamada' = [fn |-> "listar_filmes_populares", n |-> n, ret |-> r]
  /\ UNCHANGED <<dataVars, movies_table, df2>>

\* ------------------------------------------------------------- search
\* The characters of a title.
Chars(t) ==
  CASE t = "Ab" -> <<"A", "b">>
    [] t = "b(" -> <<"b", "(">>
    [] OTHER -> <<>>

Termos ==
  { <<"a">>, <<"B">>, <<"z">>, <<".">>, <<"(">>, <<"b", "(">>, <<"a", "B">> }

Lower(c) == CASE c = "A" -> "a" [] c = "B" -> "b" [] OTHER -> c

\* Series.str.contains(termo, case=False) takes termo as a regular expression
\* (regex=True is the default): "." matches any character, and a "(" that is
\* never closed does not compile (re.error).
Compiles(termo) == \A i \in 1..Len(termo) : termo[i] # "("

ElemMatch(pc, c) == pc = "." \/ Lower(pc) = Lower(c)

RegexSearch(termo, cs) ==
  \E off \in 0..(Len(cs) - Len(termo)) :
    \A i \in 1..Len(termo) : ElemMatch(termo[i], cs[off + i])

RECURSIVE FilterRows(_, _)
FilterRows(m, termo) ==
  IF Len(m) = 0 THEN <<>>
  ELSE (IF RegexSearch(termo, Chars(Head(m).title)) THEN <<Head(m)>> ELSE <<>>)
         \o FilterRows(Tail(m), termo)

\* pesquisar_filme: ret is the value returned; erro tells whether the except
\* branch ran (it prints or shows a message and returns None).
pesquisar_filme(m, termo) ==
  IF ~Compiles(termo) THEN [ret |-> None, erro |-> TRUE]
  ELSE LET resultados == FilterRows(m, termo) IN
         IF Len(resultados) = 0 THEN [ret |-> None, erro |-> FALSE]
         ELSE [ret |-> [tipo |-> "tabela", linhas |-> resultados], erro |-> FALSE]

PesquisarFilme ==
  /\ sessao = "none"
  /\ Idle
  /\ Loaded
  /\ \E termo \in Termos :
       LET r == pesquisar_filme(movies.linhas, termo) IN
         chamada' = [fn |-> "pesquisar_filme", termo |-> termo,
                     ret |-> r.ret, erro |-> r.erro]
  /\ UNCHANGED <<dataVars, movies_table, df2>>

\* ----------------------------------------------------- content corpus
\* The call sites of the content functions: app.py tests the loader's flag,
\* the command-line and batch mains test tags and dados against None.
\* Mutant: the call sites without their test.
ConteudoSemTeste(fe, flag, tg, dd) == TRUE

ConteudoHabilitado(fe, flag, tg, dd) ==
  IF fe = "app" THEN flag ELSE tg # None /\ dd # None

RECURSIVE Repeat(_, _)
Repeat(x, k) == IF k <= 0 THEN <<>> ELSE <<x>> \o Repeat(x, k - 1)

AtLeastOne(k) == IF k = 0 THEN 1 ELSE k

\* movies left-joined to dados on title = Name, then to tags on movieId: a film
\* row is repeated once per matching row (and kept once when none matches);
\* Infos is the genres field.
RECURSIVE CorpusRows(_, _, _)
CorpusRows(m, tg, dd) ==
  IF Len(m) = 0 THEN <<>>
  ELSE Repeat([movieId |-> Head(m).movieId, title |-> Head(m).title,
               Infos |-> Head(m).genres],
              AtLeastOne(dd.linhas[Head(m).title]) * AtLeastOne(tg.linhas[Head(m).movieId]))
         \o CorpusRows(Tail(m), tg, dd)

HasRows(t) == \E k \in DOMAIN t.linhas : t.linhas[k] > 0

\* preparar_dados_conteudo. merge raises TypeError for a table that is None.
\* output/sistema_recomendacao.py joins the str movieId of movies to the int64
\* movieId of tags, which raises ValueError when tags has a row; app.py
\* converts a copy of tags first.
preparar_dados_conteudo(fe, m, tg, dd) ==
  IF tg = None \/ dd = None THEN Raise("TypeError")
  ELSE IF fe = "cli" /\ HasRows(tg) THEN Raise("ValueError")
  ELSE [tipo |-> "tabela", linhas |-> CorpusRows(m, tg, dd)]

\* The function first rewrites movies['movieId'] in place, as str.
PrepararDadosConteudo ==
  /\ sessao = "none"
  /\ Idle
  /\ Loaded
  /\ ConteudoHabilitado(frontend, conteudo_disponivel, tags, dados)
  /\ LET r == preparar_dados_conteudo(frontend, movies.linhas, tags, dados) IN
       /\ df2' = IF IsRaise(r) THEN df2 ELSE r
       /\ chamada' = [fn |-> "preparar_dados_conteudo", ret |-> r]
  /\ movieIdStr' = TRUE
  /\ UNCHANGED <<frontend, disco, movies, ratings, tags, dados,
                 conteudo_disponivel, movies_table, sessao, simVars>>

\* ----------------------------------------------------- content scorer
\* TfidfVectorizer's default tokens: lower-cased runs of two or more word
\* characters.
Tokens(text) == IF text = "Drama" THEN {"drama"} ELSE {}

Vocabulary(rows) == UNION { Tokens(rows[k].Infos) : k \in DOMAIN rows }

\* The TF-IDF row of a text. Every profile here has at most one token, so the
\* normalised row is the unit vector of that token whatever its idf weight.
Tfidf(text, V) == [t \in V |-> IF t \in Tokens(text) THEN 1 ELSE 0]

Positions(rows, filme) == { k \in DOMAIN rows : rows[k].title = filme }

\* The outcomes of recomendacao_baseada_em_conteudo. fit_transform raises
\* ValueError on an empty vocabulary. sim_df2 is labelled by title on both axes:
\* sim_df2[filme] is a Series when one row has the title and a DataFrame when
\* several have it, and DataFrame.sort_values without `by` raises TypeError.
recomendacao_baseada_em_conteudo(rows, filme) ==
  LET V == Vocabulary(rows)
      pos == Positions(rows, filme)
  IN IF V = {} THEN {Raise("ValueError")}
     ELSE IF pos = {} THEN {None}
     ELSE IF Cardinality(pos) > 1 THEN {Raise("TypeError")}
     ELSE LET k == CHOOSE j \in pos : TRUE
              col == [i \in DOMAIN rows |->
                        CosSq(Tfidf(rows[i].Infos, V), Tfidf(rows[k].Infos, V), V)]
              ent == [i \in DOMAIN rows |-> [title |-> rows[i].title, sim |-> col[i]]]
          IN { [tipo |-> "tabela", linhas |-> l] :
                 l \in SortedDesc(ent, col, DOMAIN rows) }

RecomendacaoBaseadaEmConteudo ==
  /\ sessao = "none"
  /\ Idle
  /\ ConteudoHabilitado(frontend, conteudo_disponivel, tags, dados)
  /\ df2 # None
  /\ \E filme \in QueryTitles :
       \E r \in recomendacao_baseada_em_conteudo(df2.linhas, filme) :
         chamada' = [fn |-> "recomendacao_baseada_em_conteudo", filme |-> filme,
                     ret |-> r]
  /\ UNCHANGED <<dataVars, movies_table, df2>>

\* The caller is done with the result of the call (app.py's script run ends).
Retornar ==
  /\ sessao = "none"
  /\ chamada.fn \notin {"start", "idle"}
  /\ chamada' = [fn |-> "idle"]
  /\ UNCHANGED <<dataVars, movies_table, df2>>

Next ==
  \/ CarregarDados
  \/ PrepararDadosColaborativos
  \/ FiltragemColaborativa
  \/ PrepararDadosConteudo
  \/ RecomendacaoBaseadaEmConteudo
  \/ MostrarRecomendacoes
  \/ ListarFilmesPopulares
  \/ PesquisarFilme
  \/ Retornar

Spec == Init /\ [][Next]_vars


\* ------------------------------------------------ command-line session
TopN == 10         \* the count main passes to mostrar_recomendacoes
\* The default count of listar_filmes_populares, which is 20 in the source,
\* scaled down to the catalogue of NItems films so that a popular list can be
\* longer than what is printed of it.
PopularN == 1

Skipped == [tipo |-> "skipped"]

\* The outcomes of mostrar_recomendacoes_para_filme: the collaborative query and
\* its formatting, then, when the content method is available, the content
\* query and its formatting. Nothing catches an exception of a scorer.
mostrar_recomendacoes_para_filme(filme, mt, corpus, disponivel) ==
  UNION {
    IF IsRaise(r1) THEN {[colab |-> r1, conteudo |-> Skipped, crash |-> TRUE]}
    ELSE IF disponivel /\ corpus # None
    THEN { [colab |-> mostrar_recomendacoes("cli", r1, TopN),
            conteudo |-> IF IsRaise(r2) THEN r2
                         ELSE mostrar_recomendacoes("cli", r2, TopN),
            crash |-> IsRaise(r2)] :
             r2 \in recomendacao_baseada_em_conteudo(corpus.linhas, filme) }
    ELSE {[colab |-> mostrar_recomendacoes("cli", r1, TopN),
           conteudo |-> Skipped, crash |-> FALSE]} :
      r1 \in filtragem_colaborativa(mt, filme) }

\* What the user types at an index prompt: text that int() rejects, or a number.
IndiceInputs ==
  {[num |-> FALSE, val |-> 0]} \cup { [num |-> TRUE, val |-> v] : v \in -1..(NItems + 1) }

\* The index test of options 1 and 2: int(indice), then 0 < indice <= len(tabela).
IndiceAceite(indice, tabela) ==
  indice.num /\ 0 < indice.val /\ indice.val <= Len(tabela.linhas)

NoQuery == [colab |-> Skipped, conteudo |-> Skipped, crash |-> FALSE]

\* main, up to the menu loop: load, build the rating matrix and, when tags and
\* dados are there, the content corpus. An exception here ends the process
\* before any query.
CliStartup ==
  /\ sessao = "start"
  /\ LET d == carregar_dados(disco)
         mt == preparar_dados_colaborativos(d.movies.linhas, FALSE, d.ratings.linhas)
         hab == ConteudoHabilitado("cli", d.flag, d.tags, d.dados)
         c == IF hab THEN preparar_dados_conteudo("cli", d.movies.linhas, d.tags, d.dados)
              ELSE None
     IN /\ movies' = d.movies
        /\ ratings' = d.ratings
        /\ tags' = d.tags
        /\ dados' = d.dados
        /\ conteudo_disponivel' = hab
        /\ movies_table' = mt
        /\ movieIdStr' = hab
        /\ df2' = IF IsRaise(c) THEN None ELSE c
        /\ sessao' = IF IsRaise(c) THEN "startup_crash" ELSE "loop"
        /\ chamada' = [fn |-> "main", ret |-> c]
  /\ UNCHANGED <<frontend, disco, simVars>>

\* The exception a query ended with.
Raised(res) == IF IsRaise(res.colab) THEN res.colab.exc ELSE res.conteudo.exc

\* Options 1 and 2 make the query inside the try block of int(indice), whose
\* `except ValueError` also catches a ValueError raised by a scorer; option 3
\* has no try block.
Caught(fn, res) ==
  res.crash /\ fn \in {"opcao1", "opcao2"} /\ Raised(res) = "ValueError"

\* impresso: the rows of the listing that were printed.
CliQuery(fn, listing, impresso, indice, filme) ==
  \E res \in mostrar_recomendacoes_para_filme(filme, movies_table, df2,
                                               conteudo_disponivel) :
    /\ chamada' = [fn |-> fn, listing |-> listing, impresso |-> impresso,
                   indice |-> indice, filme |-> filme, res |-> res]
    /\ sessao' = IF res.crash /\ ~Caught(fn, res) THEN "query_crash" ELSE "loop"

CliNoQuery(fn, listing, impresso, indice) ==
  /\ chamada' = [fn |-> fn, listing |-> listing, impresso |-> impresso,
                 indice |-> indice, filme |-> "", res |-> NoQuery]
  /\ sessao' = "loop"

sessVars == <<frontend, disco, movies, movieIdStr, ratings, tags, dados,
              conteudo_disponivel, movies_table, df2, simVars>>

\* Option 1: the popular list, an index, and the query for that row's title.
CliOpcao1 ==
  /\ sessao = "menu"
  /\ \E fp \in listar_filmes_populares("cli", movies.linhas, ratings.linhas, PopularN),
        indice \in IndiceInputs :
       LET impresso == HeadN(fp.linhas, PopularN) IN
         IF IndiceAceite(indice, fp)
         THEN CliQuery("opcao1", fp, impresso, indice, fp.linhas[indice.val].title)
         ELSE CliNoQuery("opcao1", fp, impresso, indice)
  /\ UNCHANGED sessVars

\* Option 2: a search, which prints the rows it found, and when it found rows
\* an index and the query.
CliOpcao2 ==
  /\ sessao = "menu"
  /\ \E termo \in Termos, indice \in IndiceInputs :
       LET resultados == pesquisar_filme(movies.linhas, termo).ret
           impresso == IF resultados = None THEN <<>> ELSE resultados.linhas
       IN IF resultados # None /\ Len(resultados.linhas) # 0
               /\ IndiceAceite(indice, resultados)
          THEN CliQuery("opcao2", resultados, impresso, indice,
                        resultados.linhas[indice.val].title)
          ELSE CliNoQuery("opcao2", resultados, impresso, indice)
  /\ UNCHANGED sessVars

\* Option 3: the query for a typed title.
CliOpcao3 ==
  /\ sessao = "menu"
  /\ \E filme \in QueryTitles :
       CliQuery("opcao3", None, <<>>, [num |-> FALSE, val |-> 0], filme)
  /\ UNCHANGED sessVars

\* Option 4 leaves the loop; any other text prints a message and loops.
CliOpcao4 ==
  /\ sessao = "menu"
  /\ sessao' = "exit"
  /\ chamada' = [fn |-> "opcao4"]
  /\ UNCHANGED sessVars

CliOpcaoInvalida ==
  /\ sessao = "menu"
  /\ sessao' = "loop"
  /\ chamada' = [fn |-> "opcao_invalida"]
  /\ UNCHANGED sessVars

\* The top of the while loop: the options are printed and the choice is read.
CliMenu ==
  /\ sessao = "loop"
  /\ sessao' = "menu"
  /\ chamada' = [fn |-> "menu"]
  /\ UNCHANGED sessVars

InitCLI ==
  /\ frontend = "cli"
  /\ disco \in DiscosColab \cup DiscosConteudo
  /\ movies = None
  /\ movieIdStr = FALSE
  /\ ratings = None
  /\ tags = None
  /\ dados = None
  /\ conteudo_disponivel = FALSE
  /\ movies_table = None
  /\ df2 = None
  /\ chamada = [fn |-> "start"]
  /\ sessao = "start"
  /\ NoQueryYet

NextCLI ==
  \/ CliStartup
  \/ CliOpcao1
  \/ CliOpcao2
  \/ CliOpcao3
  \/ CliOpcao4
  \/ CliOpcaoInvalida
  \/ CliMenu

SpecCLI == InitCLI /\ [][NextCLI]_vars

\* Every front end: the call sites of app.py and of the batch main, and the
\* command-line session.
InitAll == Init \/ InitCLI

NextAll == Next \/ NextCLI

SpecAll == InitAll /\ [][NextAll]_vars

\* ------------------------------------------------ running the queries
\* A recommendation query, step by step: the caller picks a title, calls the
\* collaborative scorer and then, when the content method is available, the
\* content scorer. Each run of a scorer's body computes the whole similarity
\* matrix (cosine_similarity is its first or second statement) before it
\* looks the title up.
MaxBuilds == 2       \* matrices counted per scorer

Scorers == {"colab", "conteudo"}

\* Data directories for the queries: tags.csv and dados.csv with a header
\* only, or both unreadable.
DiscosConsultas ==
  { d \in DiscosConteudo :
      /\ d.tags.ok = d.dados.ok
      /\ \A i \in MovieIds : d.tags.linhas[i] = 0
      /\ \A t \in Titles : d.dados.linhas[t] = 0 }

\* The outcomes of a scorer's body for the tables the caller passes.
ScorerBody(sc, filme) ==
  IF sc = "colab" THEN filtragem_colaborativa(movies_table, filme)
  ELSE recomendacao_baseada_em_conteudo(df2.linhas, filme)

\* Whether the body gets as far as computing the matrix: cosine_similarity
\* raises on a rating matrix without rows, and fit_transform raises on an
\* empty vocabulary before cosine_similarity is reached.
ComputesMatrix(sc) ==
  IF sc = "colab" THEN movies_table.index # {} ELSE Vocabulary(df2.linhas) # {}

\* st.cache_data keys a call by the hash of its arguments: the table, which
\* is the same in every call for one loaded catalog, and the reference title.
Cached(sc, filme) == frontend = "app" /\ filme \in DOMAIN cache[sc]

\* Callers inside the body of scorer sc.
Building(sc) ==
  { s \in Callers : consulta[s].fase = "build" /\ consulta[s].scorer = sc }

\* st.cache_data holds one lock per key while the body runs: a second call
\* with the same key waits for the first.
KeyLocked(sc, filme) ==
  frontend = "app" /\ \E s \in Building(sc) : consulta[s].filme = filme

\* Where a caller goes when scorer sc gave r: an exception ends the script run
\* of app.py and the process of the command-line program; after the
\* collaborative scorer comes the content scorer, when it is available.
AfterScorer(sc, filme, r) ==
  IF IsRaise(r)
  THEN (IF frontend = "app" THEN [fase |-> "idle"] ELSE [fase |-> "crash"])
  ELSE IF sc = "colab"
            /\ ConteudoHabilitado(frontend, conteudo_disponivel, tags, dados)
            /\ df2 # None
  THEN [fase |-> "call", scorer |-> "conteudo", filme |-> filme]
  ELSE [fase |-> "idle"]

queryFrame == <<frontend, disco, movies, movieIdStr, ratings, tags, dados,
                conteudo_disponivel, movies_table, df2, chamada, sessao>>

\* A caller asks for the recommendations for a title, once the tables of the
\* start-up are built. The command-line program has one caller.
StartQuery ==
  /\ sessao = "none"
  /\ Idle
  /\ movies_table # None
  /\ ConteudoHabilitado(frontend, conteudo_disponivel, tags, dados) => df2 # None
  /\ \E s \in Callers, filme \in QueryTitles :
       /\ frontend = "cli" => s = "s1"
       /\ consulta[s].fase = "idle"
       /\ consulta' = [consulta EXCEPT ![s] =
                         [fase |-> "call", scorer |-> "colab", filme |-> filme]]
  /\ UNCHANGED <<queryFrame, cache, builds>>

\* app.py: the call finds its key in the cache and the body does not run.
CachedCall ==
  /\ sessao = "none"
  /\ \E s \in Callers :
       /\ consulta[s].fase = "call"
       /\ Cached(consulta[s].scorer, consulta[s].filme)
       /\ consulta' = [consulta EXCEPT ![s] =
            AfterScorer(consulta[s].scorer, consulta[s].filme,
                        cache[consulta[s].scorer][consulta[s].filme])]
  /\ UNCHANGED <<queryFrame, cache, builds>>

\* The body of the scorer starts: in app.py on a cache miss, when no other
\* caller holds the key's lock; in the command-line program on every call.
EnterScorer ==
  /\ sessao = "none"
  /\ \E s \in Callers :
       LET sc == consulta[s].scorer
           filme == consulta[s].filme
       IN /\ consulta[s].fase = "call"
          /\ ~Cached(sc, filme)
          /\ ~KeyLocked(sc, filme)
          /\ ComputesMatrix(sc) => builds[sc] < MaxBuilds
          /\ builds' = IF ComputesMatrix(sc)
                       THEN [builds EXCEPT ![sc] = @ + 1] ELSE builds
          /\ consulta' = [consulta EXCEPT ![s].fase = "build"]
  /\ UNCHANGED <<queryFrame, cache>>

\* The body of the scorer ends; app.py stores a returned value (not an
\* exception) under the call's key.
LeaveScorer ==
  /\ sessao = "none"
  /\ \E s \in Callers :
       LET sc == consulta[s].scorer
           filme == consulta[s].filme
       IN /\ consulta[s].fase = "build"
          /\ \E r \in ScorerBody(sc, filme) :
               /\ cache' = IF frontend = "app" /\ ~IsRaise(r)
                           THEN [cache EXCEPT ![sc] = (filme :> r) @@ @]
                           ELSE cache
               /\ consulta' = [consulta EXCEPT ![s] = AfterScorer(sc, filme, r)]
  /\ UNCHANGED <<queryFrame, builds>>

InitConsultas ==
  /\ frontend \in FrontEnds
  /\ disco \in DiscosConsultas
  /\ movies = None
  /\ movieIdStr = FALSE
  /\ ratings = None
  /\ tags = None
  /\ dados = None
  /\ conteudo_disponivel = FALSE
  /\ movies_table = None
  /\ df2 = None
  /\ chamada = [fn |-> "start"]
  /\ sessao = "none"
  /\ NoQueryYet

NextConsultas ==
  \/ CarregarDados
  \/ PrepararDadosColaborativos
  \/ PrepararDadosConteudo
  \/ Retornar
  \/ StartQuery
  \/ CachedCall
  \/ EnterScorer
  \/ LeaveScorer

SpecConsultas == InitConsultas /\ [][NextConsultas]_vars

\* ============================================================= claims

\* --- C1 ---------------------------------------------------------------
\* C1 (as stated): a query for a title that is not a row of the rating matrix
\* (collaborative scorer) or not a title of the content corpus (content scorer)
\* returns None: never a table, never a raised exception.
C1_AbsentTitleGivesNone ==
  /\ (chamada.fn = "filtragem_colaborativa" /\ chamada.filme \notin movies_table.index)
       => chamada.ret = None
  /\ (chamada.fn = "recomendacao_baseada_em_conteudo"
        /\ Positions(df2.linhas, chamada.filme) = {})
       => chamada.ret = None

\* --- C2 ---------------------------------------------------------------
\* C2 (as stated): a collaborative query for a title X that is a row of the
\* rating matrix returns a ranking whose first entry is X with similarity 1.0,
\* also when another title is tied with X at 1.0.
C2_SelfFirstColab ==
  (chamada.fn = "filtragem_colaborativa" /\ chamada.filme \in movies_table.index)
    => /\ chamada.ret.tipo = "tabela"
       /\ chamada.ret.linhas[1].title = chamada.filme
       /\ chamada.ret.linhas[1].sim = One

\* --- C3 ---------------------------------------------------------------
\* C3 (as stated): a content query for a title X of the content corpus returns
\* a ranking whose first entry is X with similarity 1.0, also when another item
\* has the same profile and when the profile of X has no token.
C3_SelfFirstConteudo ==
  (chamada.fn = "recomendacao_baseada_em_conteudo"
     /\ Positions(df2.linhas, chamada.filme) # {})
    => /\ chamada.ret.tipo = "tabela"
       /\ chamada.ret.linhas[1].title = chamada.filme
       /\ chamada.ret.linhas[1].sim = One

\* --- C4 ---------------------------------------------------------------
\* C4 (as stated): in a command-line session no query ends the process: every
\* menu choice with every typed input ends in an outcome and the session is
\* back at the menu; only option 4 ends it.
C4_NoQueryEndsTheProcess ==
  /\ sessao # "query_crash"
  /\ sessao = "exit" => chamada.fn = "opcao4"

\* --- C5 ---------------------------------------------------------------
OptionalLoadFailed == ~disco.tags.ok \/ ~disco.dados.ok

ContentFunctions == {"preparar_dados_conteudo", "recomendacao_baseada_em_conteudo"}

\* C5: when tags.csv or dados.csv fails to load, the load still yields movies
\* and ratings and reports content as unavailable; from then on no front end
\* calls the content corpus builder or the content scorer (so no corpus ever
\* exists), and building the rating matrix still succeeds.
C5_DegradedMode ==
  (Loaded /\ OptionalLoadFailed)
    => /\ movies = [tipo |-> "tabela", linhas |-> disco.movies]
       /\ ratings = [tipo |-> "tabela", linhas |-> disco.ratings]
       /\ tags = None /\ dados = None /\ ~conteudo_disponivel
       /\ chamada.fn \notin ContentFunctions
       /\ df2 = None
       /\ ~IsRaise(preparar_dados_colaborativos(movies.linhas, movieIdStr,
                                                 ratings.linhas))
       /\ (chamada.fn = "preparar_dados_colaborativos" => movies_table = chamada.ret)
       /\ (chamada.fn \in {"opcao1", "opcao2", "opcao3"}
             => chamada.res.conteudo = Skipped)

\* C5 witness: in degraded mode, with only dados.csv unreadable, a collaborative
\* query returned a ranking.
C5_Witness ==
  /\ Loaded /\ disco.tags.ok /\ ~disco.dados.ok
  /\ chamada.fn = "filtragem_colaborativa"
  /\ chamada.ret.tipo = "tabela"

\* --- C6 ---------------------------------------------------------------
\* C6: for a non-empty result of length L and a count n >= 0 the formatter
\* gives exactly the first min(n, L) entries in their order, as a table (not
\* the 'no recommendations' signal): empty for n = 0, all L entries for n > L.
C6_FormatterTruncates ==
  (chamada.fn = "mostrar_recomendacoes" /\ chamada.rec # None
     /\ Len(chamada.rec.linhas) > 0)
    => LET L == Len(chamada.rec.linhas)
           k == IF chamada.n <= L THEN chamada.n ELSE L
       IN /\ chamada.ret.tipo = "tabela"
          /\ Len(chamada.ret.linhas) = k
          /\ \A i \in 1..k : chamada.ret.linhas[i] = chamada.rec.linhas[i]

\* C6 witness: a ranking of two entries formatted with count 0 gave an empty
\* table.
C6_Witness ==
  /\ chamada.fn = "mostrar_recomendacoes" /\ chamada.rec # None
  /\ Len(chamada.rec.linhas) = 2 /\ chamada.n = 0
  /\ chamada.ret = EmptyTable

\* --- C7 ---------------------------------------------------------------
NoRecommendations(fe) == IF fe = "app" THEN None ELSE Msg

\* C7: for an absent (None) or empty result the formatter signals 'no
\* recommendations' (None in app.py, the message on the command line) for
\* every count, never a table.
C7_FormatterSignalsNone ==
  (chamada.fn = "mostrar_recomendacoes"
     /\ (chamada.rec = None \/ Len(chamada.rec.linhas) = 0))
    => /\ chamada.ret = NoRecommendations(frontend)
       /\ chamada.ret.tipo # "tabela"

\* C7 witness: the formatter was given an empty table with count 0.
C7_Witness ==
  /\ chamada.fn = "mostrar_recomendacoes" /\ chamada.rec = EmptyTable
  /\ chamada.n = 0
  /\ chamada.ret.tipo # "tabela"

\* --- C8 ---------------------------------------------------------------
ContainsIgnoreCase(termo, cs) ==
  \E off \in 0..(Len(cs) - Len(termo)) :
    \A i \in 1..Len(termo) : Lower(termo[i]) = Lower(cs[off + i])

RowsContaining(m, termo) ==
  { k \in DOMAIN m : ContainsIgnoreCase(termo, Chars(m[k].title)) }

\* C8 (as stated): a search returns every item whose title contains the term
\* ignoring case, and the value returned for a search without a match differs
\* from the value returned for a search that failed with an error.
C8_SearchContract ==
  chamada.fn = "pesquisar_filme"
    => /\ \A k \in RowsContaining(movies.linhas, chamada.termo) :
            /\ chamada.ret.tipo = "tabela"
            /\ \E i \in DOMAIN chamada.ret.linhas :
                 chamada.ret.linhas[i] = movies.linhas[k]
       /\ chamada.erro
            => \A t \in Termos :
                 LET r == pesquisar_filme(movies.linhas, t) IN
                   (~r.erro /\ RowsContaining(movies.linhas, t) = {})
                     => r.ret # chamada.ret

\* --- C9 ---------------------------------------------------------------
\* C9 (as stated): the popular list has at most n rows, in non-increasing
\* order of rating count, and rows with equal counts are in title order, so
\* the list is the same for every order of the rows of ratings.csv.
TitleBefore(a, b) == a = b \/ (a = "Ab" /\ b = "b(")

C9_PopularOrder ==
  chamada.fn = "listar_filmes_populares"
    => LET l == chamada.ret.linhas IN
         /\ Len(l) <= chamada.n
         /\ \A i \in 1..(Len(l) - 1) :
              /\ l[i].num_avaliacoes >= l[i + 1].num_avaliacoes
              /\ l[i].num_avaliacoes = l[i + 1].num_avaliacoes
                   => TitleBefore(l[i].title, l[i + 1].title)
         /\ Cardinality(listar_filmes_populares(frontend, movies.linhas,
                                                ratings.linhas, chamada.n)) = 1

\* --- C10 --------------------------------------------------------------
RatedTitles == { movies.linhas[r.movieId].title :
                   r \in { x \in ratings.linhas : x.movieId \in MovieIds } }

JoinedUsers == { r.userId : r \in { x \in ratings.linhas : x.movieId \in MovieIds } }

RatingsOf(t, u) ==
  { r \in ratings.linhas :
      /\ r.userId = u /\ r.movieId \in MovieIds
      /\ movies.linhas[r.movieId].title = t }

\* C10 (as stated): one row per title with a rating, one column per userId of
\* the joined ratings, and each cell holds that user's rating of that title
\* (0 when there is none).
C10_CellIsTheRating ==
  movies_table # None
    => /\ movies_table.index = RatedTitles
       /\ movies_table.columns = JoinedUsers
       /\ \A t \in RatedTitles, u \in JoinedUsers :
            IF RatingsOf(t, u) = {} THEN movies_table.cel[<<t, u>>] = 0
            ELSE \A r \in RatingsOf(t, u) :
                   movies_table.cel[<<t, u>>] = Escala * r.rating

\* C10 (amended): one row per title with a rating, one column per userId of the
\* joined ratings; each cell holds the mean of that user's ratings of the films
\* with that title (the one rating when there is only one), 0 when there is
\* none; the ratings of several film ids sharing a title are in that one row.
C10_CellIsTheMean ==
  movies_table # None
    => /\ movies_table.index = RatedTitles
       /\ movies_table.columns = JoinedUsers
       /\ \A t \in RatedTitles, u \in JoinedUsers :
            LET rs == RatingsOf(t, u) IN
              IF rs = {} THEN movies_table.cel[<<t, u>>] = 0
              ELSE movies_table.cel[<<t, u>>] * Cardinality(rs)
                     = Escala * SumOver(rs, [r \in rs |-> r.rating])

\* C10 witness: the matrix was built and one user rated two films sharing a
\* title, with different values.
C10_Witness ==
  /\ chamada.fn = "preparar_dados_colaborativos" /\ movies_table # None
  /\ \E t \in RatedTitles, u \in JoinedUsers :
       \E a, b \in RatingsOf(t, u) : a.movieId # b.movieId /\ a.rating # b.rating

\* --- C11 --------------------------------------------------------------
\* C11 (as stated): when several rows of the content corpus have the title of
\* a content query, the query still returns one ranked similarity column for
\* that title: it does not raise, and every entry is one title with one
\* similarity.
C11_DuplicatesCollapse ==
  (chamada.fn = "recomendacao_baseada_em_conteudo"
     /\ Cardinality(Positions(df2.linhas, chamada.filme)) > 1)
    => /\ ~IsRaise(chamada.ret)
       /\ chamada.ret.tipo = "tabela"
       /\ \A i \in DOMAIN chamada.ret.linhas :
            DOMAIN chamada.ret.linhas[i] = {"title", "sim"}

\* --- C12 --------------------------------------------------------------
\* C12 (as stated): every engine operation leaves the loaded Items, Ratings
\* and Tags tables as they were loaded, so the operations can run in any
\* order: a rating matrix built, or a popular list made, after the content
\* corpus was built is the one the loaded files give.
C12_TablesUnchanged ==
  Loaded
    => /\ movies = [tipo |-> "tabela", linhas |-> disco.movies]
       /\ ~movieIdStr
       /\ ratings = [tipo |-> "tabela", linhas |-> disco.ratings]
       /\ tags = carregar_dados(disco).tags
       /\ (chamada.fn = "preparar_dados_colaborativos"
             => chamada.ret = preparar_dados_colaborativos(disco.movies, FALSE,
                                                           disco.ratings))
       /\ (chamada.fn = "listar_filmes_populares"
             => chamada.ret \in listar_filmes_populares(frontend, disco.movies,
                                                        disco.ratings, chamada.n))

\* --- C13 --------------------------------------------------------------
\* C13 (as stated): for one loaded catalog each scorer's similarity matrix is
\* computed once and reused: over any sequence of queries, also for different
\* titles, at most one matrix was computed per scorer.
C13_MatrixBuiltOnce ==
  \A sc \in Scorers : builds[sc] <= 1

\* --- C14 --------------------------------------------------------------
\* C14 (as stated): when several callers query the same loaded catalog at the
\* same time, at most one caller is computing the similarity matrix of a
\* given input table; the others wait for it or reuse its result.
C14_SingleFlight ==
  \A sc \in Scorers : Cardinality(Building(sc)) <= 1

\* --- C15 --------------------------------------------------------------
Queried == chamada.res # NoQuery

\* C15 (as stated): after 'popular films' or 'search' a query is made only for
\* a typed integer i with 1 <= i <= the number of rows of the listing the
\* operation returned, and then for the title of row i; any other input makes
\* no query and the session is back at the menu; and for 'popular films' an
\* accepted i is the number of a film that was printed.
C15_IndexValidation ==
  chamada.fn \in {"opcao1", "opcao2"}
    => LET l == chamada.listing
           i == chamada.indice
           rows == IF l = None THEN 0 ELSE Len(l.linhas)
       IN /\ Queried
               => /\ i.num /\ 1 <= i.val /\ i.val <= rows
                  /\ chamada.filme = l.linhas[i.val].title
          /\ (~i.num \/ i.val < 1 \/ i.val > rows)
               => ~Queried /\ sessao = "loop"
          /\ (chamada.fn = "opcao1" /\ Queried)
               => /\ i.val <= Len(chamada.impresso)
                  /\ chamada.impresso[i.val].title = chamada.filme

=============================================================================
